---- MODULE Spec2Model ----
(***************************************************************************)
(* A model of the tokenizer (src/src/tokenizer.ts) and of the stack-based  *)
(* parser (src/src/parser.ts) of the alias DSL compiler.                   *)
(*                                                                         *)
(* Strings are sequences of one-character strings ("" is <<>>), so that    *)
(* concatenation, length and character access are what the code does.     *)
(* Objects that the code shares by reference (the open token, collectors   *)
(* and their nodes) are modelled by reference: lastToken is a position in  *)
(* tokenList, collectors live in a heap and are named by their identity.   *)
(***************************************************************************)
EXTENDS Integers, Sequences, FiniteSets, TLC

VARIABLES
  tokenizer,       \* the Tokenizer instance: input, index, position, lastToken, tokenList
  parser,          \* the Parser instance: index, tokenList, ast
  heap,            \* the Collector objects created so far, by identity (1..Len(heap))
  collectorStack,  \* Parser.run's local collectorStack: identities, bottom first
  node,            \* Parser.run's local node: identity of the collector owning it, 0 = null
  collector,       \* Parser.run's local collector: a collector identity, 0 = null
  pc               \* where the program is: "tokenizer", "tokenized", "parser", "returned", "thrown"

vars == <<tokenizer, parser, heap, collectorStack, node, collector, pc>>

----------------------------------------------------------------------------
(* Bounds of the model *)

\* longest input text of the tokenizer specification
MaxLen == 5

\* longest token sequence enumerated in full for the parser specification
MaxTokens == 3

\* most tokens put in front of a statement in the parser specification
MaxPre == 1

----------------------------------------------------------------------------
(* Characters and strings *)

lineFeed == "\n"
carriageReturn == "\r"
space == " "

isNewLine(char) == char = lineFeed \/ char = carriageReturn

isWhitespace(char) == char = space

\* enum Sign (the grave accent character cannot be written in a TLA+ string
\* and is written out by name)
Sign == [LeftParenthesis |-> "(", RightParenthesis |-> ")",
         LeftCurlyBrace |-> "{", RightCurlyBrace |-> "}",
         DollarSign |-> "$", GraveAccent |-> "grave",
         DoubleQuotationMark |-> "\"", Colon |-> ":",
         Number |-> "#", Slash |-> "/"]

\* enum Keyword
Keyword == [Alias |-> <<"a", "l", "i", "a", "s">>,
            If |-> <<"i", "f">>,
            Else |-> <<"e", "l", "s", "e">>,
            End |-> <<"e", "n", "d">>,
            Branch |-> <<"b", "r", "a", "n", "c", "h">>,
            Goto |-> <<"g", "o", "t", "o">>]

\* enum TokenType
TokenType == [Whitespace |-> "whitespace", Word |-> "word",
              Keyword |-> "keyword", Sign |-> "sign"]

\* Object.values of an enum
Values(enum) == {enum[k] : k \in DOMAIN enum}

----------------------------------------------------------------------------
(* Tokenizer *)

isKeyword(token) == token \in Values(Keyword)

isSign(char) == char \in Values(Sign)

\* str[index] ?? "" with the code's 0-based index
getSafeString(str, index) ==
  IF index >= 0 /\ index < Len(str) THEN str[index + 1] ELSE ""

\* the class a character falls in, in the order of the switch of Tokenizer.run
Classify(char) ==
  IF isNewLine(char) THEN "newline"
  ELSE IF isWhitespace(char) THEN TokenType.Whitespace
  ELSE IF isSign(char) THEN TokenType.Sign
  ELSE TokenType.Word

\* a variant of Extends without the test on the kind (Sign tokens merge too)
ExtendsSameType(t, type) ==
  t.lastToken # 0 /\ t.tokenList[t.lastToken].type = type

\* the condition under which pushToken extends the open token
Extends(t, type) ==
  /\ t.lastToken # 0
  /\ t.tokenList[t.lastToken].type = type
  /\ t.tokenList[t.lastToken].type \in {TokenType.Whitespace, TokenType.Word}

\* variants of Promotes: no token is retagged; every Word is retagged
PromotesNever(t) == FALSE

PromotesAnyWord(t) ==
  t.lastToken # 0 /\ t.tokenList[t.lastToken].type = TokenType.Word

\* the condition under which pushToken retags the open token as Keyword
Promotes(t) ==
  t.lastToken # 0 /\ isKeyword(t.tokenList[t.lastToken].value)

\* a variant of pushToken whose extension leaves the end of the token alone
pushTokenKeepEnd(t, type, char) ==
  IF Extends(t, type)
  THEN [t EXCEPT !.tokenList[t.lastToken].value = @ \o <<char>>,
                 !.index = @ + 1]
  ELSE LET promoted == IF Promotes(t)
                       THEN [t.tokenList EXCEPT ![t.lastToken].type = TokenType.Keyword]
                       ELSE t.tokenList
           new == [type |-> type, value |-> <<char>>,
                   start |-> t.index, end |-> t.index + 1,
                   line |-> t.position.line, col |-> t.position.col]
       IN [t EXCEPT !.tokenList = Append(promoted, new),
                    !.lastToken = Len(promoted) + 1,
                    !.position.col = @ + 1,
                    !.index = @ + 1]

\* Tokenizer.pushToken on the tokenizer instance t
pushToken(t, type, char) ==
  IF Extends(t, type)
  THEN [t EXCEPT !.tokenList[t.lastToken].value = @ \o <<char>>,
                 !.tokenList[t.lastToken].end = @ + 1,
                 !.index = @ + 1]
  ELSE LET promoted == IF Promotes(t)
                       THEN [t.tokenList EXCEPT ![t.lastToken].type = TokenType.Keyword]
                       ELSE t.tokenList
           new == [type |-> type, value |-> <<char>>,
                   start |-> t.index, end |-> t.index + 1,
                   line |-> t.position.line, col |-> t.position.col]
       IN [t EXCEPT !.tokenList = Append(promoted, new),
                    !.lastToken = Len(promoted) + 1,
                    !.position.col = @ + 1,
                    !.index = @ + 1]

\* a variant of NewLineWidth that always takes the next character too
NewLineWidthTwo(t, char) == 2

\* how many characters pushNewLine consumes
NewLineWidth(t, char) ==
  LET next == getSafeString(t.input, t.index + 1)
  IN IF char # next /\ isNewLine(next) THEN 2 ELSE 1

\* a variant of pushNewLine that leaves the column counter alone
pushNewLineKeepCol(t, char) ==
  [t EXCEPT !.index = @ + NewLineWidth(t, char),
            !.position.line = @ + 1,
            !.lastToken = 0]

\* Tokenizer.pushNewLine on the tokenizer instance t
pushNewLine(t, char) ==
  [t EXCEPT !.index = @ + NewLineWidth(t, char),
            !.position = [line |-> t.position.line + 1, col |-> 0],
            !.lastToken = 0]

\* a fresh Tokenizer whose run has been entered with this input
NewTokenizer(input) ==
  [input |-> input, index |-> 0, position |-> [line |-> 0, col |-> 0],
   lastToken |-> 0, tokenList |-> <<>>]

\* no Parser exists yet
NoParser == [index |-> 0, tokenList |-> <<>>, ast |-> [type |-> "Program", body |-> <<>>]]

ParserIdle ==
  /\ parser = NoParser /\ heap = <<>> /\ collectorStack = <<>>
  /\ node = 0 /\ collector = 0

\* one iteration of the loop of Tokenizer.run on a line break character
PushNewLineStep ==
  /\ pc = "tokenizer"
  /\ tokenizer.index < Len(tokenizer.input)
  /\ LET char == tokenizer.input[tokenizer.index + 1]
     IN /\ isNewLine(char)
        /\ tokenizer' = pushNewLine(tokenizer, char)
  /\ UNCHANGED <<parser, heap, collectorStack, node, collector, pc>>

\* one iteration of the loop of Tokenizer.run on any other character
PushTokenStep ==
  /\ pc = "tokenizer"
  /\ tokenizer.index < Len(tokenizer.input)
  /\ LET char == tokenizer.input[tokenizer.index + 1]
     IN /\ ~isNewLine(char)
        /\ tokenizer' = pushToken(tokenizer, Classify(char), char)
  /\ UNCHANGED <<parser, heap, collectorStack, node, collector, pc>>

\* the loop of Tokenizer.run ends and the token list is returned
TokenizerReturn ==
  /\ pc = "tokenizer"
  /\ ~(tokenizer.index < Len(tokenizer.input))
  /\ pc' = "tokenized"
  /\ UNCHANGED <<tokenizer, parser, heap, collectorStack, node, collector>>

----------------------------------------------------------------------------
(* The tokenizer on every text up to MaxLen characters *)

\* the characters the texts are drawn from: word characters (i, f spell a
\* reserved word), the space, two signs and both line break characters
Chars == {"i", "f", space, Sign.Number, Sign.DoubleQuotationMark, lineFeed, carriageReturn}

Texts == UNION {[1..n -> Chars] : n \in 0..MaxLen}

InitTok ==
  /\ \E input \in Texts : tokenizer = NewTokenizer(input)
  /\ ParserIdle
  /\ pc = "tokenizer"

NextTok == PushNewLineStep \/ PushTokenStep \/ TokenizerReturn

SpecTok == InitTok /\ [][NextTok]_vars

----------------------------------------------------------------------------
(* Collectors *)

\* what a CollectorRule returns: a boolean, or a newly made Collector
Boolean(b) == [kind |-> "boolean", value |-> b]
NewCollector(class) == [kind |-> "collector", class |-> class]

\* AliasStatementCollector.node as constructed
AliasStatementNode ==
  [type |-> "AliasStatement",
   body |-> <<[type |-> "AliasLiteral", value |-> <<>>],
              [type |-> "PackedStatement", value |-> <<>>,
               body |-> [type |-> "StringLiteral", value |-> <<>>]]>>]

\* StringLiteralCollector.node as constructed
StringLiteralNode == [type |-> "StringLiteral", value |-> <<>>]

\* new AliasStatementCollector() / new StringLiteralCollector(); besides the
\* fields of the class, a collector records its history: how many times its
\* compose() was called (composed) and how many times it was handed to
\* another collector's next() (fed)
Construct(class) ==
  [class |-> class, tokenList |-> <<>>, index |-> 0, complete |-> FALSE,
   skipWhitespace |-> TRUE,
   node |-> IF class = "AliasStatementCollector" THEN AliasStatementNode
            ELSE StringLiteralNode,
   composed |-> 0, fed |-> 0]

\* a variant of AliasRule whose first rule makes a new collector of its own
\* class instead of matching the alias token
AliasRuleSpawnsFirst(i, t) ==
  CASE i = 0 -> NewCollector("AliasStatementCollector")
    [] i = 1 -> Boolean(t.type = TokenType.Word)
    [] i = 2 -> Boolean(t.value = <<Sign.Number>>)
    [] i = 3 -> Boolean(t.type = TokenType.Word)
    [] i = 4 -> Boolean(t.value = <<Sign.LeftParenthesis>>)
    [] i = 5 -> NewCollector("StringLiteralCollector")
    [] i = 6 -> Boolean(t.value = <<Sign.RightParenthesis>>)

\* AliasStatementCollector.ruleList[i](t), i counted from 0
AliasRule(i, t) ==
  CASE i = 0 -> Boolean(t.value = Keyword.Alias)
    [] i = 1 -> Boolean(t.type = TokenType.Word)
    [] i = 2 -> Boolean(t.value = <<Sign.Number>>)
    [] i = 3 -> Boolean(t.type = TokenType.Word)
    [] i = 4 -> Boolean(t.value = <<Sign.LeftParenthesis>>)
    [] i = 5 -> NewCollector("StringLiteralCollector")
    [] i = 6 -> Boolean(t.value = <<Sign.RightParenthesis>>)

\* a variant of StringRule whose second rule takes any token but a quote
StringRuleAnyInterior(i, t) ==
  CASE i = 0 -> Boolean(t.value = <<Sign.DoubleQuotationMark>>)
    [] i = 1 -> Boolean(t.value # <<Sign.DoubleQuotationMark>>)
    [] i = 2 -> Boolean(t.value = <<Sign.DoubleQuotationMark>>)

\* StringLiteralCollector.ruleList[i](t), i counted from 0
StringRule(i, t) ==
  CASE i = 0 -> Boolean(t.value = <<Sign.DoubleQuotationMark>>)
    [] i = 1 -> Boolean(t.type = TokenType.Word)
    [] i = 2 -> Boolean(t.value = <<Sign.DoubleQuotationMark>>)

\* ruleList.length
RuleCount(class) == IF class = "AliasStatementCollector" THEN 7 ELSE 3

\* this.ruleList[this.index](token)
Rule(c, t) ==
  IF c.class = "AliasStatementCollector" THEN AliasRule(c.index, t)
  ELSE StringRule(c.index, t)

\* a variant of Skips: no token is skipped
SkipsNothing(c, token) == FALSE

\* whether Collector.next returns at once on this token (line 60)
Skips(c, token) == c.skipWhitespace /\ token.type = TokenType.Whitespace

\* what Collector.next is handed: a token, or a collector (by identity)
Ref(id) == [ref |-> id]
IsCollector(data) == "ref" \in DOMAIN data

\* a variant of pushCollector in which no class overrides the base method
pushCollectorBase(h, id, c) == h

\* pushCollector(c) of the collector `id`: the base class does nothing,
\* AliasStatementCollector copies a StringLiteralCollector's node value
pushCollector(h, id, c) ==
  IF h[id].class = "AliasStatementCollector" /\ h[c].class = "StringLiteralCollector"
  THEN [h EXCEPT ![id].node.body[2].body.value = h[c].node.value]
  ELSE h

\* a variant of Mismatch that goes on as if the token had been skipped
MismatchIgnored(h) == [heap |-> h, returned |-> 0, thrown |-> FALSE]

\* the rule did not match: throw new Error() (line 69)
Mismatch(h) == [heap |-> h, returned |-> 0, thrown |-> TRUE]

\* Collector.next of the collector `id` in heap h: the heap afterwards, the
\* collector returned (0 when none) and whether an exception was thrown
next(h, id, data) ==
  IF IsCollector(data)
  THEN [heap |-> [pushCollector(h, id, data.ref) EXCEPT ![id].index = @ + 1,
                                                        ![data.ref].fed = @ + 1],
        returned |-> 0, thrown |-> FALSE]
  ELSE IF Skips(h[id], data)
  THEN [heap |-> h, returned |-> 0, thrown |-> FALSE]
  ELSE IF h[id].index >= RuleCount(h[id].class)
  THEN \* rule is undefined: calling it throws a TypeError
       [heap |-> h, returned |-> 0, thrown |-> TRUE]
  ELSE LET match == Rule(h[id], data)
       IN IF match.kind = "collector"
          THEN [heap |-> Append(h, Construct(match.class)),
                returned |-> Len(h) + 1, thrown |-> FALSE]
          ELSE IF match.value
          THEN [heap |-> [h EXCEPT ![id].tokenList = Append(@, data),
                                   ![id].complete =
                                     IF h[id].index = RuleCount(h[id].class) - 1
                                     THEN TRUE ELSE @,
                                   ![id].index = @ + 1],
                returned |-> 0, thrown |-> FALSE]
          ELSE Mismatch(h)

\* a variant of NameTokens without the filter on the kind
NameTokensAll(tokenList) == tokenList

\* the tokens AliasStatementCollector.compose takes its two names from
NameTokens(tokenList) == SelectSeq(tokenList, LAMBDA t : t.type = TokenType.Word)

\* compose() of the collector `id`: the heap afterwards (the call is counted
\* in the collector's history) and whether an exception was thrown (reading
\* .value of undefined)
compose(h, id) ==
  LET called == [h EXCEPT ![id].composed = @ + 1]
  IN IF h[id].class = "AliasStatementCollector"
     THEN LET names == NameTokens(h[id].tokenList)
          IN IF Len(names) < 2
             THEN [heap |-> called, thrown |-> TRUE]
             ELSE [heap |-> [called EXCEPT ![id].node.body[1].value = names[1].value,
                                           ![id].node.body[2].value = names[2].value],
                   thrown |-> FALSE]
     ELSE IF Len(h[id].tokenList) < 2
     THEN [heap |-> called, thrown |-> TRUE]
     ELSE [heap |-> [called EXCEPT ![id].node.value = h[id].tokenList[2].value],
           thrown |-> FALSE]

----------------------------------------------------------------------------
(* Parser *)

\* new Parser() whose run has been entered with this token list
NewParser(tokenList) ==
  [index |-> 0, tokenList |-> tokenList,
   ast |-> [type |-> "Program", body |-> <<>>]]

\* the state of a run of Parser.run, as one value
RunState(p, h, stack, n, c, threw) ==
  [parser |-> p, heap |-> h, collectorStack |-> stack, node |-> n,
   collector |-> c, thrown |-> threw]

\* the state on entry to the loop of Parser.run
Start(tokenList) == RunState(NewParser(tokenList), <<>>, <<>>, 0, 0, FALSE)

Pop(stack) == IF stack = <<>> THEN stack ELSE SubSeq(stack, 1, Len(stack) - 1)
At_1(stack) == IF stack = <<>> THEN 0 ELSE stack[Len(stack)]

\* a variant of Completed that calls compose() a second time
CompletedComposesTwice(s) ==
  LET composed == compose(compose(s.heap, s.collector).heap, s.collector)
      stack == Pop(s.collectorStack)
      last == At_1(stack)
  IN IF composed.thrown
     THEN [s EXCEPT !.heap = composed.heap, !.thrown = TRUE]
     ELSE IF last # 0
     THEN [s EXCEPT !.heap = next(composed.heap, last, Ref(s.collector)).heap,
                    !.collectorStack = stack,
                    !.collector = last,
                    !.node = last]
     ELSE [s EXCEPT !.heap = composed.heap,
                    !.collectorStack = stack,
                    !.parser.ast.body = Append(@, s.node),
                    !.node = 0,
                    !.collector = 0]

\* a variant of Completed that puts the finished node in front of the body
CompletedPrepends(s) ==
  LET composed == compose(s.heap, s.collector)
      stack == Pop(s.collectorStack)
      last == At_1(stack)
  IN IF composed.thrown
     THEN [s EXCEPT !.heap = composed.heap, !.thrown = TRUE]
     ELSE IF last # 0
     THEN [s EXCEPT !.heap = next(composed.heap, last, Ref(s.collector)).heap,
                    !.collectorStack = stack,
                    !.collector = last,
                    !.node = last]
     ELSE [s EXCEPT !.heap = composed.heap,
                    !.collectorStack = stack,
                    !.parser.ast.body = <<s.node>> \o @,
                    !.node = 0,
                    !.collector = 0]

\* lines 169-182: the current collector is complete
Completed(s) ==
  LET composed == compose(s.heap, s.collector)
      stack == Pop(s.collectorStack)
      last == At_1(stack)
  IN IF composed.thrown
     THEN [s EXCEPT !.heap = composed.heap, !.thrown = TRUE]
     ELSE IF last # 0
     THEN [s EXCEPT !.heap = next(composed.heap, last, Ref(s.collector)).heap,
                    !.collectorStack = stack,
                    !.collector = last,
                    !.node = last]
     ELSE [s EXCEPT !.heap = composed.heap,
                    !.collectorStack = stack,
                    !.parser.ast.body = Append(@, s.node),
                    !.node = 0,
                    !.collector = 0]

\* a variant of Feed that does not step the cursor back after a spawn
FeedNoRewind(s, token) ==
  LET fed == next(s.heap, s.collector, token)
      spawned == IF fed.returned # 0
                 THEN [s EXCEPT !.heap = fed.heap,
                                !.collector = fed.returned,
                                !.collectorStack = Append(@, fed.returned),
                                !.node = fed.returned]
                 ELSE [s EXCEPT !.heap = fed.heap]
  IN IF fed.thrown THEN [s EXCEPT !.thrown = TRUE]
     ELSE IF spawned.heap[spawned.collector].complete THEN Completed(spawned)
     ELSE spawned

\* lines 162-183: the token is fed to the current collector
Feed(s, token) ==
  LET fed == next(s.heap, s.collector, token)
      spawned == IF fed.returned # 0
                 THEN [s EXCEPT !.heap = fed.heap,
                                !.collector = fed.returned,
                                !.collectorStack = Append(@, fed.returned),
                                !.node = fed.returned,
                                !.parser.index = @ - 1]
                 ELSE [s EXCEPT !.heap = fed.heap]
  IN IF fed.thrown THEN [s EXCEPT !.thrown = TRUE]
     ELSE IF spawned.heap[spawned.collector].complete THEN Completed(spawned)
     ELSE spawned

\* whether the top-level switch starts a statement on this token
StartsStatement(token) == token.value = Keyword.Alias

\* a variant of Unrecognized that rejects the token
UnrecognizedThrows(s) == [s EXCEPT !.thrown = TRUE]

\* the default branch of the top-level switch: nothing happens
Unrecognized(s) == s

\* a variant of Dispatch that does not push the new collector on the stack
DispatchNoPush(s, token) ==
  IF StartsStatement(token)
  THEN [s EXCEPT !.heap = Append(@, Construct("AliasStatementCollector")),
                 !.collector = Len(s.heap) + 1,
                 !.node = Len(s.heap) + 1,
                 !.parser.index = @ - 1]
  ELSE Unrecognized(s)

\* lines 185-194: top-level dispatch on the token
Dispatch(s, token) ==
  IF StartsStatement(token)
  THEN [s EXCEPT !.heap = Append(@, Construct("AliasStatementCollector")),
                 !.collector = Len(s.heap) + 1,
                 !.collectorStack = Append(@, Len(s.heap) + 1),
                 !.node = Len(s.heap) + 1,
                 !.parser.index = @ - 1]
  ELSE Unrecognized(s)

\* one iteration of the loop of Parser.run (lines 159-195)
Iterate(s) ==
  LET token == s.parser.tokenList[s.parser.index + 1]
      read == [s EXCEPT !.parser.index = @ + 1]
  IN IF s.node # 0 /\ s.collector # 0 THEN Feed(read, token)
     ELSE Dispatch(read, token)

\* the run as the variables hold it
Now == RunState(parser, heap, collectorStack, node, collector, pc = "thrown")

\* the variables take the run state s
Becomes(s) ==
  /\ parser' = s.parser
  /\ heap' = s.heap
  /\ collectorStack' = s.collectorStack
  /\ node' = s.node
  /\ collector' = s.collector

InLoop == pc = "parser" /\ parser.index < Len(parser.tokenList)

\* parser(tokenList) is called on the tokenizer's result
ParserCall ==
  /\ pc = "tokenized"
  /\ Becomes(Start(tokenizer.tokenList))
  /\ pc' = "parser"
  /\ UNCHANGED tokenizer

\* an iteration of the loop with no collector active
ParserDispatch ==
  /\ InLoop
  /\ ~(node # 0 /\ collector # 0)
  /\ Becomes(Iterate(Now))
  /\ pc' = IF Iterate(Now).thrown THEN "thrown" ELSE pc
  /\ UNCHANGED tokenizer

\* an iteration of the loop that feeds the current collector and goes on
ParserFeed ==
  /\ InLoop
  /\ node # 0 /\ collector # 0
  /\ ~Iterate(Now).thrown
  /\ Becomes(Iterate(Now))
  /\ UNCHANGED <<tokenizer, pc>>

\* an iteration of the loop in which an exception leaves Parser.run
ParserThrow ==
  /\ InLoop
  /\ node # 0 /\ collector # 0
  /\ Iterate(Now).thrown
  /\ Becomes(Iterate(Now))
  /\ pc' = "thrown"
  /\ UNCHANGED tokenizer

\* the loop ends and Parser.run returns this.ast (line 196)
ParserReturn ==
  /\ pc = "parser"
  /\ ~(parser.index < Len(parser.tokenList))
  /\ pc' = "returned"
  /\ UNCHANGED <<tokenizer, parser, heap, collectorStack, node, collector>>

\* the Program a run state holds, its body nodes read through their references
ProgramOf(s) ==
  [type |-> s.parser.ast.type,
   body |-> [i \in 1..Len(s.parser.ast.body) |-> s.heap[s.parser.ast.body[i]].node]]

RECURSIVE RunFrom(_)
\* the loop of Parser.run from state s to its end
RunFrom(s) ==
  IF s.thrown \/ ~(s.parser.index < Len(s.parser.tokenList)) THEN s
  ELSE RunFrom(Iterate(s))

\* what a call of parser gives: an exception, or the Program returned
Result(s) ==
  [error |-> s.thrown,
   program |-> IF s.thrown THEN [type |-> "none", body |-> <<>>] ELSE ProgramOf(s)]

\* parser(tokenList): what the call gives
ParserOutcome(tokenList) == Result(RunFrom(Start(tokenList)))

----------------------------------------------------------------------------
(* The parser on token sequences *)

\* a token's kind and text
Lexeme(type, value) == [type |-> type, value |-> value]

KAlias == Lexeme(TokenType.Keyword, Keyword.Alias)
WAlias == Lexeme(TokenType.Word, Keyword.Alias)
Wx == Lexeme(TokenType.Word, <<"x">>)
Wy == Lexeme(TokenType.Word, <<"y">>)
Hash == Lexeme(TokenType.Sign, <<Sign.Number>>)
LParen == Lexeme(TokenType.Sign, <<Sign.LeftParenthesis>>)
RParen == Lexeme(TokenType.Sign, <<Sign.RightParenthesis>>)
DQuote == Lexeme(TokenType.Sign, <<Sign.DoubleQuotationMark>>)
Blank == Lexeme(TokenType.Whitespace, <<space>>)

Lexemes == {KAlias, WAlias, Wx, Wy, Hash, LParen, RParen, DQuote, Blank}

RECURSIVE Offset(_, _)
\* the number of characters of the first n lexemes
Offset(ls, n) == IF n = 0 THEN 0 ELSE Offset(ls, n - 1) + Len(ls[n].value)

\* the tokens of a sequence of lexemes laid out on one line, one after another
OnOneLine(ls) ==
  [i \in 1..Len(ls) |->
     [type |-> ls[i].type, value |-> ls[i].value,
      start |-> Offset(ls, i - 1), end |-> Offset(ls, i),
      line |-> 0, col |-> i - 1]]

\* alias <a> # <p> ( " <s> " ), the alias token of either kind
Statement(k, a, p, s) == <<k, a, Hash, p, LParen, DQuote, s, DQuote, RParen>>

Statements ==
  {Statement(k, n[1], n[2], n[3]) :
     k \in {KAlias, WAlias}, n \in {<<Wx, Wy, Wx>>, <<Wy, Wx, Wy>>, <<Wy, Wy, Wx>>}}

Inserted(ls, i, e) == SubSeq(ls, 1, i) \o <<e>> \o SubSeq(ls, i + 1, Len(ls))
Deleted(ls, i) == SubSeq(ls, 1, i - 1) \o SubSeq(ls, i + 1, Len(ls))

\* a statement, whole, cut short, with one token more or with one token less
Variants ==
  UNION {{SubSeq(b, 1, n) : n \in 1..Len(b)}
         \cup {Inserted(b, i, e) : i \in 0..Len(b), e \in Lexemes}
         \cup {Deleted(b, i) : i \in 1..Len(b)} : b \in Statements}

SeqsUpTo(S, n) == UNION {[1..m -> S] : m \in 0..n}

\* every short sequence, and the variants of a statement after up to MaxPre
\* tokens and before nothing or a second statement
LexemeInputs ==
  SeqsUpTo(Lexemes, MaxTokens)
  \cup {pre \o v \o post : pre \in SeqsUpTo(Lexemes, MaxPre), v \in Variants,
                            post \in {<<>>, Statement(KAlias, Wx, Wx, Wy)}}

InitParse ==
  /\ tokenizer = NewTokenizer(<<>>)
  /\ \E ls \in LexemeInputs :
       /\ parser = NewParser(OnOneLine(ls))
       /\ heap = <<>> /\ collectorStack = <<>> /\ node = 0 /\ collector = 0
  /\ pc = "parser"

NextParse == ParserDispatch \/ ParserFeed \/ ParserThrow \/ ParserReturn

SpecParse == InitParse /\ [][NextParse]_vars

----------------------------------------------------------------------------
(* parser(tokenizer(text)) on the texts of alias statements *)

\* names that are no reserved words
Names == {<<"f", "o", "o">>, <<"b">>, <<"1">>}

\* alias<sep><a> #<p>("<s>")
Written(sep, a, p, s) ==
  Keyword.Alias \o <<sep>> \o a \o <<space, Sign.Number>> \o p
    \o <<Sign.LeftParenthesis, Sign.DoubleQuotationMark>> \o s
    \o <<Sign.DoubleQuotationMark, Sign.RightParenthesis>>

\* alias <a> #<n> <p>("<s>")
Documented(a, n, p, s) ==
  Keyword.Alias \o <<space>> \o a \o <<space, Sign.Number>> \o n \o <<space>> \o p
    \o <<Sign.LeftParenthesis, Sign.DoubleQuotationMark>> \o s
    \o <<Sign.DoubleQuotationMark, Sign.RightParenthesis>>

\* what is written between the quotes: a name, nothing, a blank and a name
Literals == Names \cup {<<>>, <<space, "b">>}

\* two statements, one on each of two lines
TwoLines(a, p, s) == Written(space, a, p, s) \o <<lineFeed>> \o Written(space, s, a, p)

Sources ==
  {Written(sep, a, p, s) :
     sep \in {space, lineFeed, carriageReturn}, a \in Names, p \in Names, s \in Literals}
  \cup {Documented(a, n, p, s) : a \in Names, n \in Names, p \in Names, s \in Names}
  \cup {TwoLines(a, <<"b">>, s) : a \in Names, s \in Names}

InitPipe ==
  /\ \E input \in Sources : tokenizer = NewTokenizer(input)
  /\ ParserIdle
  /\ pc = "tokenizer"

NextPipe ==
  \/ PushNewLineStep \/ PushTokenStep \/ TokenizerReturn
  \/ ParserCall \/ ParserDispatch \/ ParserFeed \/ ParserThrow \/ ParserReturn

SpecPipe == InitPipe /\ [][NextPipe]_vars

----------------------------------------------------------------------------
(* Properties of the tokenizer's output *)

RECURSIVE Concat(_)
\* the concatenation of a sequence of strings
Concat(ss) == IF ss = <<>> THEN <<>> ELSE Head(ss) \o Concat(Tail(ss))

\* the text of every token of a token list, in order
TextsOf(tokens) == [i \in 1..Len(tokens) |-> tokens[i].value]

\* a string with every LF and CR character removed
WithoutLineBreaks(str) ==
  SelectSeq(str, LAMBDA c : c # lineFeed /\ c # carriageReturn)

\* tokens i and i+1 of the list touch in the input (no line break between)
Contiguous(tokens, i) == tokens[i].end = tokens[i + 1].start

ReservedWords == Values(Keyword)

Tokenized == pc = "tokenized"

\* C7: the texts of the returned tokens, concatenated in order, are the
\* input with every LF and CR removed.
C7_ConcatIsInputWithoutLineBreaks ==
  Tokenized =>
    Concat(TextsOf(tokenizer.tokenList)) = WithoutLineBreaks(tokenizer.input)

\* C7 witness: a returned token list for an input that holds a line break
\* between two tokens and a CR LF pair.
C7_Witness ==
  /\ Tokenized
  /\ Len(tokenizer.tokenList) >= 2
  /\ \E i \in 1..(Len(tokenizer.input) - 1) :
        tokenizer.input[i] = carriageReturn /\ tokenizer.input[i + 1] = lineFeed
  /\ Len(WithoutLineBreaks(tokenizer.input)) < Len(tokenizer.input)

\* C8 as claimed: every returned token whose text is a reserved word and which
\* has a successor in the list has kind Keyword.
C8_ReservedFollowedIsKeyword ==
  Tokenized =>
    \A i \in 1..(Len(tokenizer.tokenList) - 1) :
      tokenizer.tokenList[i].value \in ReservedWords
        => tokenizer.tokenList[i].type = TokenType.Keyword

\* C8 as amended: every returned token whose text is a reserved word and whose
\* successor touches it in the input (no line break between the two) has kind
\* Keyword.
C8_ReservedFollowedOnLineIsKeyword ==
  Tokenized =>
    \A i \in 1..(Len(tokenizer.tokenList) - 1) :
      (/\ tokenizer.tokenList[i].value \in ReservedWords
       /\ Contiguous(tokenizer.tokenList, i))
        => tokenizer.tokenList[i].type = TokenType.Keyword

\* C8 witness: a reserved word followed on its line by another token, and
\* tagged Keyword.
C8_Witness ==
  /\ Tokenized
  /\ \E i \in 1..(Len(tokenizer.tokenList) - 1) :
        /\ tokenizer.tokenList[i].value \in ReservedWords
        /\ Contiguous(tokenizer.tokenList, i)
        /\ tokenizer.tokenList[i].type = TokenType.Keyword

\* C9: the last returned token is never a Keyword, and every Keyword token
\* has the text of a reserved word.
C9_LastNotKeywordAndKeywordsReserved ==
  Tokenized =>
    /\ Len(tokenizer.tokenList) > 0
         => tokenizer.tokenList[Len(tokenizer.tokenList)].type # TokenType.Keyword
    /\ \A i \in 1..Len(tokenizer.tokenList) :
         tokenizer.tokenList[i].type = TokenType.Keyword
           => tokenizer.tokenList[i].value \in ReservedWords

\* C9 witness: the last token is a reserved word left as Word, after an
\* earlier reserved word that was tagged Keyword.
C9_Witness ==
  /\ Tokenized
  /\ Len(tokenizer.tokenList) >= 2
  /\ tokenizer.tokenList[Len(tokenizer.tokenList)].value \in ReservedWords
  /\ tokenizer.tokenList[Len(tokenizer.tokenList)].type = TokenType.Word
  /\ tokenizer.tokenList[1].type = TokenType.Keyword

WordBuilt == {TokenType.Word, TokenType.Keyword}

\* C10: two returned tokens that touch in the input are never both Whitespace
\* nor both built from Word characters; every Sign token is one character
\* long, so there are as many Sign tokens as sign characters in the input.
C10_NoUnmergedNeighboursSingleSigns ==
  Tokenized =>
    /\ \A i \in 1..(Len(tokenizer.tokenList) - 1) :
         Contiguous(tokenizer.tokenList, i) =>
           /\ ~(/\ tokenizer.tokenList[i].type = TokenType.Whitespace
                /\ tokenizer.tokenList[i + 1].type = TokenType.Whitespace)
           /\ ~(/\ tokenizer.tokenList[i].type \in WordBuilt
                /\ tokenizer.tokenList[i + 1].type \in WordBuilt)
    /\ \A i \in 1..Len(tokenizer.tokenList) :
         tokenizer.tokenList[i].type = TokenType.Sign
           => Len(tokenizer.tokenList[i].value) = 1
    /\ Len(SelectSeq(tokenizer.tokenList, LAMBDA t : t.type = TokenType.Sign))
         = Len(SelectSeq(tokenizer.input, LAMBDA c : c \in Values(Sign)))

\* C10 witness: two adjacent sign characters gave two touching Sign tokens,
\* and a run of two word characters gave one token.
C10_Witness ==
  /\ Tokenized
  /\ \E i \in 1..(Len(tokenizer.tokenList) - 1) :
        /\ Contiguous(tokenizer.tokenList, i)
        /\ tokenizer.tokenList[i].type = TokenType.Sign
        /\ tokenizer.tokenList[i + 1].type = TokenType.Sign
  /\ \E i \in 1..Len(tokenizer.tokenList) :
        /\ tokenizer.tokenList[i].type = TokenType.Word
        /\ Len(tokenizer.tokenList[i].value) = 2

----------------------------------------------------------------------------
(* Properties of the parser on token sequences (tokens laid out on one line,
   so that a token's col + 1 is its place in the token sequence) *)

Returned == pc = "returned"
Thrown == pc = "thrown"

\* the place of a token in parser.tokenList
PlaceOf(t) == t.col + 1

\* the token the next iteration of the loop reads
Current == parser.tokenList[parser.index + 1]

\* the next iteration feeds the current collector
Feeding == InLoop /\ node # 0 /\ collector # 0

\* C2 as claimed: the run never returns a Program while the collector stack
\* still holds an unfinished statement.
C2_NoReturnWithOpenStatement ==
  Returned => collectorStack = <<>>

\* C3 as claimed: in every statement of Program.body the AliasLiteral value
\* is the text of the token matched by the second rule and the
\* PackedStatement value the text of the token matched by the fourth rule,
\* whatever the kind of the token matched by the first rule.
C3_NamesAreSecondAndFourthToken ==
  \A i \in 1..Len(parser.ast.body) :
    LET c == heap[parser.ast.body[i]]
    IN /\ c.node.body[1].value = c.tokenList[2].value
       /\ c.node.body[2].value = c.tokenList[4].value

NotBlank(t) == t.type # TokenType.Whitespace

\* the tokens read so far after the opening quote of a string collector, up
\* to its closing quote once it has one
Interior(c) ==
  SubSeq(parser.tokenList, PlaceOf(c.tokenList[1]) + 1,
         IF c.complete THEN PlaceOf(c.tokenList[3]) - 1 ELSE parser.index)

\* the string collectors that have matched their opening quote
OpenedStrings ==
  {id \in 1..Len(heap) :
     heap[id].class = "StringLiteralCollector" /\ heap[id].index >= 1}

OneWord(tokens) == Len(tokens) = 1 /\ tokens[1].type = TokenType.Word

\* C4 as claimed: unless the parse has failed, the tokens between the quotes
\* of a string literal are exactly one Word token (none or one while the
\* literal is still open): a Whitespace, Sign or second Word token there
\* makes the parser throw.
C4_InteriorIsOneWord ==
  ~Thrown =>
    \A id \in OpenedStrings :
      IF heap[id].index = 1 THEN Interior(heap[id]) = <<>>
      ELSE OneWord(Interior(heap[id]))

\* C4 as amended: unless the parse has failed, the tokens between the quotes
\* of a string literal that are not Whitespace are exactly one Word token
\* (none or one while the literal is still open), and no quote lies between:
\* Whitespace there is skipped, a Sign or a second Word makes the parser throw.
C4_InteriorIsOneWordAndBlanks ==
  ~Thrown =>
    \A id \in OpenedStrings :
      LET inside == SelectSeq(Interior(heap[id]), NotBlank)
      IN IF heap[id].index = 1 THEN inside = <<>> ELSE OneWord(inside)

\* C4 witness: a Program was returned for a literal with a Whitespace token
\* and a Word between its quotes.
C4_Witness ==
  /\ Returned
  /\ parser.ast.body # <<>>
  /\ \E id \in OpenedStrings :
       /\ heap[id].complete
       /\ Len(Interior(heap[id])) = 2
       /\ Interior(heap[id])[1].type = TokenType.Whitespace
       /\ Interior(heap[id])[2].type = TokenType.Word

\* the token about to be fed is not Whitespace and fails the predicate at the
\* current collector's cursor
MismatchAhead ==
  /\ Feeding
  /\ Current.type # TokenType.Whitespace
  /\ heap[collector].index < RuleCount(heap[collector].class)
  /\ LET c == heap[collector]
         expected ==
           IF c.class = "AliasStatementCollector"
           THEN <<Current.value = Keyword.Alias,
                  Current.type = TokenType.Word,
                  Current.value = <<"#">>,
                  Current.type = TokenType.Word,
                  Current.value = <<"(">>,
                  TRUE,
                  Current.value = <<")">> >>
           ELSE <<Current.value = <<"\"">>,
                  Current.type = TokenType.Word,
                  Current.value = <<"\"">> >>
     IN ~expected[c.index + 1]

\* C5: when the token fed fails the predicate at the cursor the run ends at
\* once by an exception: the collectors, the stack and Program.body are as
\* they were, and nothing happens after an exception (no token is read, no
\* Program is returned).
C5_MismatchAborts ==
  [][(~Thrown /\ MismatchAhead) =>
          /\ pc' = "thrown"
          /\ parser'.ast = parser.ast
          /\ parser'.index = parser.index + 1
          /\ heap' = heap
          /\ collectorStack' = collectorStack]_vars

\* C5 witness: the run ended by an exception inside the second statement,
\* after the first one had been added to Program.body.
C5_Witness ==
  /\ Thrown
  /\ collectorStack # <<>>
  /\ Len(parser.ast.body) = 1
  /\ parser.index < Len(parser.tokenList)

\* what the run gave, once it is over
Outcome == Result(Now)

NoAliasIn(tokens) == \A i \in 1..Len(tokens) : tokens[i].value # Keyword.Alias

\* C6: with no collector active a token whose text is not alias only moves
\* the read cursor; and the outcome of a run on P followed by T, P without
\* such a token, is the outcome of parser(T).
C6_TopLevelTokensAreDropped ==
  /\ [][(InLoop /\ collectorStack = <<>> /\ Current.value # Keyword.Alias) =>
          /\ parser' = [parser EXCEPT !.index = @ + 1]
          /\ UNCHANGED <<heap, collectorStack, node, collector, pc>>]_vars
  /\ [](Returned \/ Thrown =>
          \A n \in 0..Len(parser.tokenList) :
            NoAliasIn(SubSeq(parser.tokenList, 1, n)) =>
              ParserOutcome(SubSeq(parser.tokenList, n + 1, Len(parser.tokenList)))
                = Outcome)

\* C6 witness: a Program with a statement was returned for a sequence that
\* begins with a token other than alias.
C6_Witness ==
  /\ Returned
  /\ parser.ast.body # <<>>
  /\ parser.tokenList[1].value # Keyword.Alias

----------------------------------------------------------------------------
(* Properties of parser(tokenizer(text)) *)

\* Program.body = [AliasStatement{[AliasLiteral{a}, PackedStatement{p, StringLiteral{s}}]}]
OneStatement(a, p, s) ==
  [type |-> "Program",
   body |-> <<[type |-> "AliasStatement",
               body |-> <<[type |-> "AliasLiteral", value |-> a],
                          [type |-> "PackedStatement", value |-> p,
                           body |-> [type |-> "StringLiteral", value |-> s]]>>]>>]

----------------------------------------------------------------------------
(* Positions of the tokenizer's tokens *)

\* the first n characters of a string
Prefix(str, n) == SubSeq(str, 1, n)

\* the number of line breaks of a string, a line break being one LF, or one
\* CR with the LF that follows it if one does
LineBreaks(str) ==
  Cardinality({i \in 1..Len(str) :
     \/ str[i] = lineFeed /\ ~(i > 1 /\ str[i - 1] = carriageReturn)
     \/ str[i] = carriageReturn})

\* C12 as claimed: the line of every token is the number of line breaks that
\* precede it in the input, LF followed by CR being two line breaks.
C12_LineIsLineBreaksBefore ==
  \A i \in 1..Len(tokenizer.tokenList) :
    tokenizer.tokenList[i].line
      = LineBreaks(Prefix(tokenizer.input, tokenizer.tokenList[i].start))

\* a line break character stands in the input between the end of token i and
\* the start of token j
BreakBetween(i, j) ==
  \E k \in (tokenizer.tokenList[i].end + 1)..tokenizer.tokenList[j].start :
    isNewLine(tokenizer.input[k])

\* the tokens opened before token i on the line of token i
OpenedBeforeOnLine(i) == {j \in 1..(i - 1) : ~BreakBetween(j, i)}

\* the character the tokenizer is about to read
Char == tokenizer.input[tokenizer.index + 1]

Tokenizing == pc = "tokenizer" /\ tokenizer.index < Len(tokenizer.input)

\* C16: the col of every token is the number of tokens opened before it on
\* its line; the column counter advances by one when a token is opened, stays
\* when a character extends the open token and is 0 after every line break.
C16_ColCountsTokensOpenedOnLine ==
  /\ [](\A i \in 1..Len(tokenizer.tokenList) :
          tokenizer.tokenList[i].col = Cardinality(OpenedBeforeOnLine(i)))
  /\ [][Tokenizing =>
          tokenizer'.position.col =
            IF isNewLine(Char) THEN 0
            ELSE IF Len(tokenizer'.tokenList) > Len(tokenizer.tokenList)
                 THEN tokenizer.position.col + 1
                 ELSE tokenizer.position.col]_vars

\* a second line whose second token follows a token of two characters, the
\* first line holding a token too
C16_Witness ==
  \E i \in 3..Len(tokenizer.tokenList) :
    /\ tokenizer.tokenList[i].line = 1 /\ tokenizer.tokenList[i].col = 1
    /\ Len(tokenizer.tokenList[i - 1].value) = 2
    /\ tokenizer.tokenList[i - 2].line = 0

\* C20: the text of every token is the input from its start (inclusive) to
\* its end (exclusive), so end - start is the length of the text, 1 at least;
\* a token starts where the one before it ends, or later, and later exactly
\* when a line break stands between the two.
C20_TokensAreSlicesInOrder ==
  /\ \A i \in 1..Len(tokenizer.tokenList) :
       LET token == tokenizer.tokenList[i]
       IN /\ token.start >= 0 /\ token.end <= Len(tokenizer.input)
          /\ token.value = SubSeq(tokenizer.input, token.start + 1, token.end)
          /\ token.end - token.start = Len(token.value)
          /\ Len(token.value) >= 1
  /\ \A i \in 1..(Len(tokenizer.tokenList) - 1) :
       /\ tokenizer.tokenList[i].end <= tokenizer.tokenList[i + 1].start
       /\ tokenizer.tokenList[i].end < tokenizer.tokenList[i + 1].start
            <=> BreakBetween(i, i + 1)

\* a token of two characters, a token that starts where it ends, and a token
\* after a line break
C20_Witness ==
  /\ pc = "tokenized"
  /\ \E i \in 1..(Len(tokenizer.tokenList) - 2) :
       /\ Len(tokenizer.tokenList[i].value) = 2
       /\ tokenizer.tokenList[i + 1].start = tokenizer.tokenList[i].end
       /\ tokenizer.tokenList[i + 2].start = tokenizer.tokenList[i + 1].end + 1

----------------------------------------------------------------------------
(* String literals of parser(tokenizer(text)) *)

\* the k-th smallest element of a set of numbers
Nth(S, k) == CHOOSE x \in S : Cardinality({y \in S : y < x}) = k - 1

\* the places of the double-quote tokens in the tokenizer's result
Quotes ==
  {i \in 1..Len(tokenizer.tokenList) :
     tokenizer.tokenList[i].value = <<Sign.DoubleQuotationMark>>}

\* the places of the Word tokens between the quotes of the k-th literal
WordsOfLiteral(k) ==
  {j \in (Nth(Quotes, 2 * k - 1) + 1)..(Nth(Quotes, 2 * k) - 1) :
     tokenizer.tokenList[j].type = TokenType.Word}

\* the text holds a literal with nothing between its quotes
EmptyLiteral ==
  \E i \in 1..(Len(tokenizer.input) - 1) :
    /\ tokenizer.input[i] = Sign.DoubleQuotationMark
    /\ tokenizer.input[i + 1] = Sign.DoubleQuotationMark

\* C11: in a returned Program the value of the k-th StringLiteral is the text
\* of the one Word token between the k-th pair of double-quote tokens and is
\* not the empty string; a text with an empty literal returns no Program.
C11_StringLiteralIsInteriorWord ==
  Returned =>
    /\ ~EmptyLiteral
    /\ \A k \in 1..Len(parser.ast.body) :
         LET value == heap[parser.ast.body[k]].node.body[2].body.value
         IN /\ value # <<>>
            /\ Cardinality(Quotes) >= 2 * k
            /\ Cardinality(WordsOfLiteral(k)) = 1
            /\ \A j \in WordsOfLiteral(k) : value = tokenizer.tokenList[j].value

\* a Program of two statements has been returned, its literals being the
\* texts of two different Word tokens
C11_Witness ==
  /\ Returned
  /\ Len(parser.ast.body) = 2
  /\ heap[parser.ast.body[1]].node.body[2].body.value
       # heap[parser.ast.body[2]].node.body[2].body.value

----------------------------------------------------------------------------
(* Spawning, completion and the collector stack *)

\* the next iteration feeds a token that is not skipped to a collector whose
\* rule at the cursor makes a new collector (the sixth rule of an alias
\* statement)
SpawnAhead ==
  /\ Feeding
  /\ Current.type # TokenType.Whitespace
  /\ heap[collector].class = "AliasStatementCollector"
  /\ heap[collector].index = 5

\* the current collector has just been spawned: a string collector that has
\* matched nothing yet
JustSpawned ==
  /\ Feeding
  /\ heap[collector].class = "StringLiteralCollector"
  /\ heap[collector].index = 0
  /\ Current.type # TokenType.Whitespace

\* C13: the step in which Collector.next returns a new collector leaves the
\* spawning collector as it was (cursor, token buffer, complete flag), pushes
\* the new collector on the stack and makes it the current one without moving
\* the read cursor; the next step feeds the token at that same position to
\* the new collector, which buffers it or throws.
C13_SpawnReplaysSameToken ==
  /\ [][SpawnAhead =>
          /\ pc' = pc
          /\ Len(heap') = Len(heap) + 1
          /\ heap'[collector] = heap[collector]
          /\ heap'[Len(heap')] = Construct("StringLiteralCollector")
          /\ collectorStack' = Append(collectorStack, Len(heap'))
          /\ collector' = Len(heap') /\ node' = Len(heap')
          /\ parser'.index = parser.index
          /\ JustSpawned']_vars
  /\ [][JustSpawned =>
          /\ collector = collectorStack[Len(collectorStack)]
          /\ \/ pc' = "thrown"
             \/ /\ heap'[collector].tokenList = <<Current>>
                /\ heap'[collector].index = 1
                /\ parser'.index = parser.index + 1]_vars

\* a spawned collector has buffered the token that made its parent spawn it
C13_Witness ==
  /\ pc = "parser"
  /\ collector # 0
  /\ heap[collector].class = "StringLiteralCollector"
  /\ heap[collector].index = 1
  /\ parser.tokenList[parser.index] = heap[collector].tokenList[1]
  /\ heap[collectorStack[1]].index = 5

\* the collector c with its cursor at position i
AtCursor(c, i) == [c EXCEPT !.index = i]

\* C17: a Whitespace token fed to a collector whose skipWhitespace is true
\* changes nothing of the collector (cursor, token buffer, complete flag),
\* returns no collector and throws nothing, and it would not at any other
\* cursor position of that collector either; the step of the run that feeds
\* it only moves the read cursor on by one.
C17_WhitespaceFedChangesNothing ==
  [][(/\ Feeding
      /\ Current.type = TokenType.Whitespace
      /\ heap[collector].skipWhitespace) =>
          /\ heap' = heap
          /\ collectorStack' = collectorStack
          /\ collector' = collector /\ node' = node
          /\ parser' = [parser EXCEPT !.index = @ + 1]
          /\ pc' = pc
          /\ \A i \in 0..RuleCount(heap[collector].class) :
               LET c == AtCursor(heap[collector], i)
               IN next(<<c>>, 1, Current)
                    = [heap |-> <<c>>, returned |-> 0, thrown |-> FALSE]]_vars

\* a blank has just been fed to a string collector that had matched its
\* opening quote, and the run goes on
C17_Witness ==
  /\ pc = "parser"
  /\ collector # 0
  /\ heap[collector].class = "StringLiteralCollector"
  /\ heap[collector].index = 1
  /\ parser.index >= 1
  /\ parser.tokenList[parser.index].type = TokenType.Whitespace

\* C18: the collector stack is at most two deep, an alias statement
\* collector at its bottom and a string literal collector above it; the
\* current collector is the top of the stack, and is null exactly when the
\* stack is empty.
C18_StackShape ==
  /\ Len(collectorStack) <= 2
  /\ Len(collectorStack) >= 1 =>
       heap[collectorStack[1]].class = "AliasStatementCollector"
  /\ Len(collectorStack) >= 2 =>
       heap[collectorStack[2]].class = "StringLiteralCollector"
  /\ collectorStack # <<>> => collector = collectorStack[Len(collectorStack)]
  /\ collector = 0 <=> collectorStack = <<>>

\* the stack is two deep in the second statement of the run
C18_Witness ==
  /\ Len(collectorStack) = 2
  /\ Len(parser.ast.body) = 1
  /\ heap[collector].index = 2

\* the alias statement collectors that have matched their last rule: the
\* top-level statements completed so far
CompletedStatements ==
  {id \in 1..Len(heap) :
     heap[id].class = "AliasStatementCollector" /\ heap[id].complete}

\* the place in parser.tokenList of the token that closed statement id
ClosedAt(id) == PlaceOf(heap[id].tokenList[Len(heap[id].tokenList)])

\* C15: Program.body holds one AliasStatement node for each top-level
\* statement completed so far and nothing else, in the order of their closing
\* tokens; it changes only by one node appended in the step that pops the
\* last collector and leaves the stack empty, and every such step appends;
\* the nodes it holds are never modified.
C15_BodyIsCompletedStatementsInOrder ==
  /\ [](/\ Len(parser.ast.body) = Cardinality(CompletedStatements)
        /\ \A k \in 1..Len(parser.ast.body) :
             /\ parser.ast.body[k] \in CompletedStatements
             /\ heap[parser.ast.body[k]].node.type = "AliasStatement"
        /\ \A k \in 1..(Len(parser.ast.body) - 1) :
             ClosedAt(parser.ast.body[k]) < ClosedAt(parser.ast.body[k + 1]))
  /\ [][/\ parser'.ast.body # parser.ast.body =>
             /\ Len(collectorStack) = 1 /\ collectorStack' = <<>>
             /\ parser'.ast.body = Append(parser.ast.body, collectorStack[1])
        /\ (collectorStack # <<>> /\ collectorStack' = <<>>) =>
             Len(parser'.ast.body) = Len(parser.ast.body) + 1
        /\ \A k \in 1..Len(parser.ast.body) :
             /\ parser'.ast.body[k] = parser.ast.body[k]
             /\ heap'[parser.ast.body[k]].node = heap[parser.ast.body[k]].node]_vars

\* a second statement has been appended to the body after the first
C15_Witness ==
  /\ Len(parser.ast.body) = 2
  /\ collectorStack = <<>>
  /\ heap[parser.ast.body[1]].node # heap[parser.ast.body[2]].node

\* the next iteration feeds its closing quote to a string collector that has
\* matched two tokens: the nested collector is about to become complete
NestedCompletionAhead ==
  /\ Feeding
  /\ heap[collector].class = "StringLiteralCollector"
  /\ heap[collector].index = 2
  /\ Current.value = <<Sign.DoubleQuotationMark>>

\* C14: compose() has been called once on every collector that is complete
\* and never on one that is not; a nested collector that is complete is off
\* the stack and has been fed once to its parent, no other collector has been
\* fed to anyone; in the step that completes a nested collector it is popped
\* and its parent becomes current with its cursor advanced by one and its
\* token buffer and complete flag unchanged.
C14_ComposedOnceFedOnce ==
  /\ [](\A id \in 1..Len(heap) :
          /\ heap[id].composed = IF heap[id].complete THEN 1 ELSE 0
          /\ heap[id].fed = IF heap[id].complete
                               /\ heap[id].class = "StringLiteralCollector"
                            THEN 1 ELSE 0
          /\ heap[id].complete => \A k \in 1..Len(collectorStack) : collectorStack[k] # id)
  /\ [][NestedCompletionAhead =>
          LET parent == collectorStack[Len(collectorStack) - 1]
          IN /\ pc' = pc
             /\ heap'[collector].complete
             /\ collectorStack' = SubSeq(collectorStack, 1, Len(collectorStack) - 1)
             /\ collector' = parent
             /\ heap'[parent].index = heap[parent].index + 1
             /\ heap'[parent].tokenList = heap[parent].tokenList
             /\ heap'[parent].complete = heap[parent].complete]_vars

\* a nested collector has been completed and fed to its parent, which has
\* gone on to complete in its turn
C14_Witness ==
  \E id \in 1..Len(heap) :
    /\ heap[id].class = "StringLiteralCollector"
    /\ heap[id].complete /\ heap[id].fed = 1
    /\ heap[id - 1].complete /\ heap[id - 1].composed = 1

----------------------------------------------------------------------------
(* Termination of Parser.run *)

\* the next iteration dispatches an alias token at top level
AliasAhead ==
  /\ InLoop
  /\ ~(node # 0 /\ collector # 0)
  /\ Current.value = Keyword.Alias

\* the current collector has matched nothing yet: the token it is fed next
\* is the one that made the run create it
Replaying == Feeding /\ heap[collector].index = 0

\* a number that every iteration of the loop and the return lower: twice the
\* tokens left to read, one less when the next read is a replay, one more
\* while the run has not ended
Measure ==
  2 * (Len(parser.tokenList) - parser.index)
    - (IF Replaying THEN 1 ELSE 0) + (IF pc = "parser" THEN 1 ELSE 0)

\* a step of the run can be made: the loop is over and the run returns, or
\* an iteration is made, which goes on or throws
CanStep ==
  /\ pc = "parser"
  /\ \/ ~(parser.index < Len(parser.tokenList))
     \/ InLoop /\ Iterate(Now).thrown \in BOOLEAN

\* C19: every run of the driver ends, by a return or by a throw: until it
\* has ended a step can be made, and every step lowers a number that is never
\* negative; the read cursor never goes back, and stays only in the step that dispatches an
\* alias token at top level or spawns a collector; the step after such a step
\* reads the same token, moves the read cursor on and either advances the
\* cursor of the new collector or throws on a mismatch, so that no position
\* is read a third time.
C19_DriverTerminates ==
  /\ [](Returned \/ Thrown \/ CanStep)
  /\ [](Measure >= 0)
  /\ [][/\ Measure' < Measure
        /\ parser'.index \in {parser.index, parser.index + 1}
        /\ (parser'.index = parser.index /\ pc' = pc) => (AliasAhead \/ SpawnAhead)
        /\ (AliasAhead \/ SpawnAhead) =>
             /\ parser'.index = parser.index /\ pc' = pc
             /\ Replaying'
        /\ Replaying =>
             /\ parser'.index = parser.index + 1
             /\ \/ pc' = "thrown" /\ MismatchAhead
                \/ pc' = pc /\ heap'[collector].index = 1]_vars

\* a run has ended by a return after two rewinds in one statement and one
\* more in the next
C19_Witness ==
  /\ Returned
  /\ Len(heap) >= 3
  /\ Len(parser.ast.body) >= 1

====
